---- MODULE Spec2Model ----
(***************************************************************************)
(* Logo extraction: the two scripts of the repository,                     *)
(*   src/extract-logo-advanced.py   ("advanced":  colour distance, scipy   *)
(*                                   opening/closing, soft alpha edge)     *)
(*   src/extract-logo-with-text.py  ("with_text": mean brightness, hard    *)
(*                                   alpha)                                *)
(* modelled as one state machine whose variable `script` says which of the *)
(* two programs is running.  An image is a record [h, w, px] with          *)
(* px[row][col] (0-based, as numpy indexes) a pixel <<r, g, b, a>>; a mask *)
(* is a record [h, w, at] with at[row][col] a BOOLEAN, an alpha channel    *)
(* one with at[row][col] in 0..255.                                        *)
(***************************************************************************)
EXTENDS Integers, Sequences, FiniteSets, TLC

VARIABLES script, pc, img_array, mask, bbox, crop_ys, variant,
          cropped_img, cropped_mask, alpha, result, final_img, saved

vars == <<script, pc, img_array, mask, bbox, crop_ys, variant,
          cropped_img, cropped_mask, alpha, result, final_img, saved>>

(* ------------------------------ bounds --------------------------------- *)
\* Largest height and width of the input images that are enumerated.
MaxH == 6
MaxW == 5

(* --------------------------- small helpers ------------------------------ *)
Min(S) == CHOOSE x \in S : \A y \in S : x <= y
Max(S) == CHOOSE x \in S : \A y \in S : x >= y

Cells(h, w) == (0 .. h - 1) \X (0 .. w - 1)

\* The h x w array whose cell c = <<row, col>> holds F(c), stored by rows.
Grid(h, w, F(_)) == [r \in 0 .. h - 1 |-> [k \in 0 .. w - 1 |-> F(<<r, k>>)]]

\* The pixel of an image, and the value of a mask or alpha channel, at cell c.
Px(img, c) == img.px[c[1]][c[2]]
At(m, c) == m.at[c[1]][c[2]]

\* floor(sqrt(x)) for x in 0 .. 255 * 255
isqrt(x) == CHOOSE s \in 0 .. 255 : s * s <= x /\ x < (s + 1) * (s + 1)

NoGrid == [h |-> 0, w |-> 0, at |-> <<>>]
NoImage == [h |-> 0, w |-> 0, px |-> <<>>]
NoBox == [ymin |-> 0, ymax |-> 0, xmin |-> 0, xmax |-> 0]

(* ------------------------------ pixels ---------------------------------- *)
white == <<255, 255, 255>>
WhitePixel == <<255, 255, 255, 255>>
BlackPixel == <<0, 0, 0, 255>>

\* Colours that sit on either side of every comparison the scripts make:
\*   <<205,255,255>>  distance from white exactly 50; mean 238.3; all > 150
\*   <<226,226,226>>  distance 50.2; mean 226; all > 150; stored alpha 0
\*   <<100,255,255>>  distance 155; mean 203.3 > 180; not all > 150
\*   <<250,250,250>>  distance 8.7; mean exactly 250
\*   <<150,150,240>>  distance 149; mean exactly 180; not all > 150
Palette ==
    { BlackPixel, <<205, 255, 255, 255>>, <<226, 226, 226, 0>>,
      <<100, 255, 255, 255>>, <<250, 250, 250, 255>>, <<150, 150, 240, 255>> }

(* -------------------- extract-logo-advanced.py -------------------------- *)
threshold == 50

\* line 15, squared: color_distance = sqrt(sum((rgb - white)**2)).  The sum is
\* an integer below 2^53, sqrt is correctly rounded and monotone and
\* sqrt(2500) = 50 exactly, so  sqrt(s) > 50  <=>  s > 2500.
color_distance_sq(p) ==
    (p[1] - white[1]) * (p[1] - white[1])
  + (p[2] - white[2]) * (p[2] - white[2])
  + (p[3] - white[3]) * (p[3] - white[3])

\* Mutation of is_content: the comparison made non-strict.
is_content_ge(p) == color_distance_sq(p) >= threshold * threshold

\* line 20: mask = color_distance > threshold
is_content(p) == color_distance_sq(p) > threshold * threshold

distance_mask(img) ==
    [h |-> img.h, w |-> img.w,
     at |-> Grid(img.h, img.w, LAMBDA c : is_content(Px(img, c)))]

Offsets == (-1 .. 1) \X (-1 .. 1)

Inside(m, r, c) == r >= 0 /\ r < m.h /\ c >= 0 /\ c < m.w

\* scipy.ndimage.binary_erosion, structure ones((3,3)), border_value = 0
binary_erosion(m) ==
    [h |-> m.h, w |-> m.w,
     at |-> Grid(m.h, m.w, LAMBDA c :
               \A d \in Offsets :
                   /\ Inside(m, c[1] + d[1], c[2] + d[2])
                   /\ m.at[c[1] + d[1]][c[2] + d[2]])]

\* scipy.ndimage.binary_dilation, structure ones((3,3)), border_value = 0
binary_dilation(m) ==
    [h |-> m.h, w |-> m.w,
     at |-> Grid(m.h, m.w, LAMBDA c :
               \E d \in Offsets :
                   /\ Inside(m, c[1] + d[1], c[2] + d[2])
                   /\ m.at[c[1] + d[1]][c[2] + d[2]])]

\* line 24
binary_opening(m) == binary_dilation(binary_erosion(m))
\* line 26
binary_closing(m) == binary_erosion(binary_dilation(m))

\* lines 24-26
refine(m) == binary_closing(binary_opening(m))


\* lines 29-32: rows / cols that hold a true cell
rows_any(m) == {r \in 0 .. m.h - 1 : \E c \in 0 .. m.w - 1 : m.at[r][c]}
cols_any(m) == {c \in 0 .. m.w - 1 : \E r \in 0 .. m.h - 1 : m.at[r][c]}

\* np.where(rows)[0][[0, -1]] on an empty index array raises IndexError
bbox_raises(m) == rows_any(m) = {}

\* Mutation of bounding_box: the two axes of np.any exchanged.
bounding_box_axes_swapped(m) ==
    [ymin |-> Min(cols_any(m)), ymax |-> Max(cols_any(m)),
     xmin |-> Min(rows_any(m)), xmax |-> Max(rows_any(m))]

\* lines 31-32 (the index arrays np.where returns are ascending)
bounding_box(m) ==
    [ymin |-> Min(rows_any(m)), ymax |-> Max(rows_any(m)),
     xmin |-> Min(cols_any(m)), xmax |-> Max(cols_any(m))]

\* line 39: int(ymin + (ymax - ymin) * 0.60).  The product is within an ulp of
\* 3 * (ymax - ymin) / 5, which is an integer or at least 0.2 away from one, so
\* int() truncates to the integer quotient.
graphic_only_y(b) == b.ymin + (3 * (b.ymax - b.ymin)) \div 5
\* line 40: int(ymin + (ymax - ymin) * 0.75); 0.75 is exact in binary
graphic_text_y(b) == b.ymin + (3 * (b.ymax - b.ymin)) \div 4

\* lines 43-46
Variants ==
    << [crop_name |-> "Graphic only", output_name |-> "logo_graphic_v2.png"],
       [crop_name |-> "Graphic + Text", output_name |-> "logo_with_text_v2.png"] >>

Extent(lo, hiExcl) == IF hiExcl > lo THEN hiExcl - lo ELSE 0

\* numpy slice a[r0:r1x, c0:c1x] of an image (ends exclusive, all within the
\* array), and PIL's Image.crop((c0, r0, c1x, r1x))
slice_image(img, r0, r1x, c0, c1x) ==
    [h |-> Extent(r0, r1x), w |-> Extent(c0, c1x),
     px |-> Grid(Extent(r0, r1x), Extent(c0, c1x), LAMBDA c :
               img.px[c[1] + r0][c[2] + c0])]

slice_mask(m, r0, r1x, c0, c1x) ==
    [h |-> Extent(r0, r1x), w |-> Extent(c0, c1x),
     at |-> Grid(Extent(r0, r1x), Extent(c0, c1x), LAMBDA c :
               m.at[c[1] + r0][c[2] + c0])]

\* line 52: alpha = (cropped_mask * 255).astype(np.uint8)
mask_alpha(m) ==
    [h |-> m.h, w |-> m.w,
     at |-> Grid(m.h, m.w, LAMBDA c : IF At(m, c) THEN 255 ELSE 0)]

FalseCells(m) == {c \in Cells(m.h, m.w) : ~At(m, c)}

SqDist(a, b) == (a[1] - b[1]) * (a[1] - b[1]) + (a[2] - b[2]) * (a[2] - b[2])

\* line 56: scipy.ndimage.distance_transform_edt(cropped_mask), squared.  A
\* false cell gets 0, a true cell the distance to the nearest false cell.  When
\* the mask has no false cell scipy's feature transform is left at its initial
\* value: row index -1 and a column index nocol that depends on the library
\* build (0 or -1), and the distance is the distance to that index.
distance_transform_edt_sq(m, nocol) ==
    Grid(m.h, m.w, LAMBDA c :
        IF ~At(m, c) THEN 0
        ELSE IF FalseCells(m) = {} THEN SqDist(c, <<-1, nocol>>)
        ELSE Min({SqDist(c, f) : f \in FalseCells(m)}))

\* Mutation of smooth_alpha: the product rounded to nearest, not truncated.
smooth_alpha_rounded(a, d2) ==
    IF d2 >= 4 THEN a
    ELSE ((CHOOSE s \in 0 .. 510 :
              s * s <= a * a * d2 /\ a * a * d2 < (s + 1) * (s + 1)) + 1) \div 2

\* lines 57-58 for one cell: (a * clip(d / 2.0, 0, 1)).astype(np.uint8) with
\* d = sqrt(d2).  astype truncates, and floor(a * sqrt(d2) / 2) is
\* isqrt(floor(a * a * d2 / 4)).
smooth_alpha(a, d2) ==
    IF d2 >= 4 THEN a ELSE isqrt((a * a * d2) \div 4)

\* lines 56-58
soft_alpha(m, a, nocol) ==
    LET d2 == distance_transform_edt_sq(m, nocol)
    IN  [h |-> m.h, w |-> m.w,
         at |-> Grid(m.h, m.w, LAMBDA c : smooth_alpha(At(a, c), d2[c[1]][c[2]]))]

\* line 61 / with-text line 46: cropped_img[:, :, 3] = alpha
with_alpha(img, a) ==
    [h |-> img.h, w |-> img.w,
     px |-> Grid(img.h, img.w, LAMBDA c :
               <<Px(img, c)[1], Px(img, c)[2], Px(img, c)[3], At(a, c)>>)]

\* Mutation of img_array_after_apply: the slice of line 48 taken without
\* .copy(), so that line 61 writes the alpha through to img_array.
img_array_after_apply_view(img, a, b) ==
    [h |-> img.h, w |-> img.w,
     px |-> Grid(img.h, img.w, LAMBDA c :
               IF /\ c[1] >= b.ymin /\ c[1] < b.ymin + a.h
                  /\ c[2] >= b.xmin /\ c[2] < b.xmin + a.w
               THEN <<Px(img, c)[1], Px(img, c)[2], Px(img, c)[3],
                      a.at[c[1] - b.ymin][c[2] - b.xmin]>>
               ELSE Px(img, c))]

\* line 48: cropped_img is a .copy() of the slice, so the assignment of line 61
\* does not reach img_array.
img_array_after_apply(img, a, b) == img

\* lines 67-78 / with-text lines 52-63
non_transparent(img) == {c \in Cells(img.h, img.w) : Px(img, c)[4] > 0}

\* Mutation of trim: the + 1 of trim_bottom and trim_right left out.
trim_exclusive_max(img) ==
    LET nt == non_transparent(img)
    IN  IF nt # {}
        THEN slice_image(img, Min({c[1] : c \in nt}), Max({c[1] : c \in nt}),
                         Min({c[2] : c \in nt}), Max({c[2] : c \in nt}))
        ELSE img

\* lines 68-78: crop to the rows and columns that hold a pixel of alpha > 0
trim(img) ==
    LET nt == non_transparent(img)
    IN  IF nt # {}
        THEN LET trim_top == Min({c[1] : c \in nt})
                 trim_bottom == Max({c[1] : c \in nt}) + 1
                 trim_left == Min({c[2] : c \in nt})
                 trim_right == Max({c[2] : c \in nt}) + 1
             IN  slice_image(img, trim_top, trim_bottom, trim_left, trim_right)
        ELSE img

(* -------------------- extract-logo-with-text.py ------------------------- *)
RgbSum(p) == p[1] + p[2] + p[3]

\* lines 14-15: gray = mean(rgb) < 250, i.e. r + g + b < 750
non_white(p) == RgbSum(p) < 750

non_white_pixels(img) ==
    [h |-> img.h, w |-> img.w,
     at |-> Grid(img.h, img.w, LAMBDA c : non_white(Px(img, c)))]

\* line 26: int(max_y * 0.75)
graphic_text_max_y(b) == (3 * b.ymax) \div 4

\* line 38
light_pixel(p) == p[1] > 150 /\ p[2] > 150 /\ p[3] > 150
\* Mutation of grayish: the comparison made non-strict.
grayish_ge(p) == RgbSum(p) >= 540

\* line 42: mean(rgb) > 180, i.e. r + g + b > 540
grayish(p) == RgbSum(p) > 540

\* lines 35-43
hard_alpha(img) ==
    [h |-> img.h, w |-> img.w,
     at |-> Grid(img.h, img.w, LAMBDA c :
               IF light_pixel(Px(img, c)) \/ grayish(Px(img, c)) THEN 0 ELSE 255)]


(* ------------------------------ inputs ---------------------------------- *)
\* A white h x w image with a solid rectangle of pixel fill (rows r0..r1,
\* columns c0..c1; empty when r1 < r0) and one cell dc repainted with pixel dp.
RectImage(h, w, q, fill, dc, dp) ==
    [h |-> h, w |-> w,
     px |-> Grid(h, w, LAMBDA c :
               IF c = dc THEN dp
               ELSE IF c[1] >= q[1] /\ c[1] <= q[2] /\ c[2] >= q[3] /\ c[2] <= q[4]
               THEN fill
                    ELSE WhitePixel)]

InRect(c, q) == c[1] >= q[1] /\ c[1] <= q[2] /\ c[2] >= q[3] /\ c[2] <= q[4]

\* The rectangles of an h x w grid, and the empty one.
Rects(h, w) ==
    {<<0, -1, 0, -1>>} \cup
    {q \in (0 .. h - 1) \X (0 .. h - 1) \X (0 .. w - 1) \X (0 .. w - 1) :
        q[1] <= q[2] /\ q[3] <= q[4]}

\* The rectangles that span the grid's full width.
Bands(h, w) == {q \in Rects(h, w) : q[3] = 0 /\ q[4] = w - 1}

\* The MaxH x MaxW input images: a black rectangle, plain or with one cell of
\* the image inverted (a white hole inside it or a black speck outside it), or
\* a band of any palette colour with the image's top-left cell painted white
\* or black.
IsInput(img) ==
    \/ \E q \in Rects(MaxH, MaxW) :
          \/ img = RectImage(MaxH, MaxW, q, BlackPixel, <<-1, -1>>, BlackPixel)
          \/ \E dc \in Cells(MaxH, MaxW) :
                 img = RectImage(MaxH, MaxW, q, BlackPixel, dc,
                                 IF InRect(dc, q) THEN WhitePixel ELSE BlackPixel)
    \/ \E q \in Bands(MaxH, MaxW), fill \in Palette, dp \in {WhitePixel, BlackPixel} :
          img = RectImage(MaxH, MaxW, q, fill, <<0, 0>>, dp)

(* ------------------------------- state ---------------------------------- *)
Init ==
    /\ script \in {"advanced", "with_text"}
    /\ IsInput(img_array)
    /\ pc = "start"
    /\ mask = NoGrid
    /\ bbox = NoBox
    /\ crop_ys = <<>>
    /\ variant = 0
    /\ cropped_img = NoImage
    /\ cropped_mask = NoGrid
    /\ alpha = NoGrid
    /\ result = NoImage
    /\ final_img = NoImage
    /\ saved = <<>>

(* ---------------- actions of extract-logo-advanced.py ------------------- *)
\* lines 11-20
Classify ==
    /\ script = "advanced" /\ pc = "start"
    /\ mask' = distance_mask(img_array)
    /\ pc' = "classified"
    /\ UNCHANGED <<script, img_array, bbox, crop_ys, variant, cropped_img,
                   cropped_mask, alpha, result, final_img, saved>>

\* lines 24-26
Refine ==
    /\ script = "advanced" /\ pc = "classified"
    /\ mask' = refine(mask)
    /\ pc' = "refined"
    /\ UNCHANGED <<script, img_array, bbox, crop_ys, variant, cropped_img,
                   cropped_mask, alpha, result, final_img, saved>>

\* lines 29-32 on a mask with a true cell
BoundingBox ==
    /\ script = "advanced" /\ pc = "refined"
    /\ ~bbox_raises(mask)
    /\ bbox' = bounding_box(mask)
    /\ pc' = "bounded"
    /\ UNCHANGED <<script, img_array, mask, crop_ys, variant, cropped_img,
                   cropped_mask, alpha, result, final_img, saved>>

\* Mutation of BoundingBoxRaises: no error on a mask without a true cell, an
\* empty box instead, and the run goes on.
BoundingBoxEmptyBox ==
    /\ script = "advanced" /\ pc = "refined"
    /\ bbox_raises(mask)
    /\ bbox' = [ymin |-> 0, ymax |-> -1, xmin |-> 0, xmax |-> -1]
    /\ pc' = "bounded"
    /\ UNCHANGED <<script, img_array, mask, crop_ys, variant, cropped_img,
                   cropped_mask, alpha, result, final_img, saved>>

\* line 31 on a mask with no true cell: the uncaught IndexError ends the run
BoundingBoxRaises ==
    /\ script = "advanced" /\ pc = "refined"
    /\ bbox_raises(mask)
    /\ pc' = "IndexError"
    /\ UNCHANGED <<script, img_array, mask, bbox, crop_ys, variant, cropped_img,
                   cropped_mask, alpha, result, final_img, saved>>

\* lines 39-46: the two cut rows and the start of the loop
CropRows ==
    /\ script = "advanced" /\ pc = "bounded"
    /\ crop_ys' = <<graphic_only_y(bbox), graphic_text_y(bbox)>>
    /\ variant' = 1
    /\ pc' = "loop"
    /\ UNCHANGED <<script, img_array, mask, bbox, cropped_img,
                   cropped_mask, alpha, result, final_img, saved>>

\* lines 48-52
Crop ==
    /\ script = "advanced" /\ pc = "loop"
    /\ cropped_img' = slice_image(img_array, bbox.ymin, crop_ys[variant] + 1,
                                  bbox.xmin, bbox.xmax + 1)
    /\ cropped_mask' = slice_mask(mask, bbox.ymin, crop_ys[variant] + 1,
                                  bbox.xmin, bbox.xmax + 1)
    /\ alpha' = mask_alpha(cropped_mask')
    /\ pc' = "cropped"
    /\ UNCHANGED <<script, img_array, mask, bbox, crop_ys, variant,
                   result, final_img, saved>>

\* lines 56-58
Smooth ==
    /\ script = "advanced" /\ pc = "cropped"
    /\ \E nocol \in {-1, 0} : alpha' = soft_alpha(cropped_mask, alpha, nocol)
    /\ pc' = "smoothed"
    /\ UNCHANGED <<script, img_array, mask, bbox, crop_ys, variant,
                   cropped_img, cropped_mask, result, final_img, saved>>

\* lines 61-64
Apply ==
    /\ script = "advanced" /\ pc = "smoothed"
    /\ cropped_img' = with_alpha(cropped_img, alpha)
    /\ img_array' = img_array_after_apply(img_array, alpha, bbox)
    /\ result' = cropped_img'
    /\ pc' = "applied"
    /\ UNCHANGED <<script, mask, bbox, crop_ys, variant,
                   cropped_mask, alpha, final_img, saved>>

\* lines 67-78
Trim ==
    /\ script = "advanced" /\ pc = "applied"
    /\ final_img' = trim(result)
    /\ pc' = "trimmed"
    /\ UNCHANGED <<script, img_array, mask, bbox, crop_ys, variant,
                   cropped_img, cropped_mask, alpha, result, saved>>

\* lines 81-82, and the loop's next iteration or its end (line 84)
Save ==
    /\ script = "advanced" /\ pc = "trimmed"
    /\ saved' = (Variants[variant].output_name :> final_img) @@ saved
    /\ IF variant < Len(Variants)
       THEN variant' = variant + 1 /\ pc' = "loop"
       ELSE variant' = variant /\ pc' = "done"
    /\ UNCHANGED <<script, img_array, mask, bbox, crop_ys,
                   cropped_img, cropped_mask, alpha, result, final_img>>

(* ---------------- actions of extract-logo-with-text.py ------------------ *)
\* lines 14-15
FindNonWhite ==
    /\ script = "with_text" /\ pc = "start"
    /\ mask' = non_white_pixels(img_array)
    /\ pc' = "scanned"
    /\ UNCHANGED <<script, img_array, bbox, crop_ys, variant, cropped_img,
                   cropped_mask, alpha, result, final_img, saved>>

\* lines 17-26
Bounds ==
    /\ script = "with_text" /\ pc = "scanned"
    /\ rows_any(mask) # {}
    /\ bbox' = bounding_box(mask)
    /\ crop_ys' = <<graphic_text_max_y(bbox')>>
    /\ variant' = 1
    /\ pc' = "bounded"
    /\ UNCHANGED <<script, img_array, mask, cropped_img,
                   cropped_mask, alpha, result, final_img, saved>>

\* lines 72-73
NoContent ==
    /\ script = "with_text" /\ pc = "scanned"
    /\ rows_any(mask) = {}
    /\ pc' = "No content found in image"
    /\ UNCHANGED <<script, img_array, mask, bbox, crop_ys, variant, cropped_img,
                   cropped_mask, alpha, result, final_img, saved>>

\* lines 29-32.  The box's lower edge is graphic_text_max_y, exclusive.  When
\* it lies above min_y, Image.crop raises ValueError in current Pillow and
\* returns an image of height 0 in older ones.
CropBox ==
    /\ script = "with_text" /\ pc = "bounded"
    /\ \/ /\ cropped_img' = slice_image(img_array, bbox.ymin, crop_ys[1],
                                        bbox.xmin, bbox.xmax + 1)
          /\ pc' = "cropped"
       \/ /\ crop_ys[1] < bbox.ymin
          /\ cropped_img' = cropped_img
          /\ pc' = "ValueError"
    /\ UNCHANGED <<script, img_array, mask, bbox, crop_ys, variant,
                   cropped_mask, alpha, result, final_img, saved>>

\* lines 35-43
HardAlpha ==
    /\ script = "with_text" /\ pc = "cropped"
    /\ alpha' = hard_alpha(cropped_img)
    /\ pc' = "matted"
    /\ UNCHANGED <<script, img_array, mask, bbox, crop_ys, variant,
                   cropped_img, cropped_mask, result, final_img, saved>>

\* lines 46-49
ApplyHard ==
    /\ script = "with_text" /\ pc = "matted"
    /\ cropped_img' = with_alpha(cropped_img, alpha)
    /\ result' = cropped_img'
    /\ pc' = "applied"
    /\ UNCHANGED <<script, img_array, mask, bbox, crop_ys, variant,
                   cropped_mask, alpha, final_img, saved>>

\* lines 52-63
TrimHard ==
    /\ script = "with_text" /\ pc = "applied"
    /\ final_img' = trim(result)
    /\ pc' = "trimmed"
    /\ UNCHANGED <<script, img_array, mask, bbox, crop_ys, variant,
                   cropped_img, cropped_mask, alpha, result, saved>>

\* lines 66-71
SaveHard ==
    /\ script = "with_text" /\ pc = "trimmed"
    /\ saved' = ("logo_with_text.png" :> final_img) @@ saved
    /\ pc' = "done"
    /\ UNCHANGED <<script, img_array, mask, bbox, crop_ys, variant,
                   cropped_img, cropped_mask, alpha, result, final_img>>

Next ==
    \/ Classify \/ Refine \/ BoundingBox \/ BoundingBoxRaises \/ CropRows
    \/ Crop \/ Smooth \/ Apply \/ Trim \/ Save
    \/ FindNonWhite \/ Bounds \/ NoContent \/ CropBox \/ HardAlpha
    \/ ApplyHard \/ TrimHard \/ SaveHard

Spec == Init /\ [][Next]_vars

(* ------------- the end-to-end scenarios, extract-logo-advanced.py -------- *)
\* Largest side of the scaled-down scenario images.
MaxScenarioSide == 8

\* An n x n white image with a solid black square on rows and columns lo..hi
\* (no square when hi < lo).
SquareImage(n, lo, hi) ==
    RectImage(n, n, <<lo, hi, lo, hi>>, BlackPixel, <<0, 0>>, WhitePixel)

\* The 100 x 100 image with the 20 x 20 square at 40..59, the all-white
\* 100 x 100 image, and smaller images with a square of side 5 or more that
\* leaves a white margin.
ScenarioSquares ==
    {<<100, 40, 59>>, <<100, 0, -1>>} \cup
    {t \in (7 .. MaxScenarioSide) \X (1 .. MaxScenarioSide) \X (1 .. MaxScenarioSide) :
        t[2] + 4 <= t[3] /\ t[3] <= t[1] - 2}

InitScenario ==
    /\ script = "advanced"
    /\ \E t \in ScenarioSquares : img_array = SquareImage(t[1], t[2], t[3])
    /\ pc = "start"
    /\ mask = NoGrid
    /\ bbox = NoBox
    /\ crop_ys = <<>>
    /\ variant = 0
    /\ cropped_img = NoImage
    /\ cropped_mask = NoGrid
    /\ alpha = NoGrid
    /\ result = NoImage
    /\ final_img = NoImage
    /\ saved = <<>>

NextAdvanced ==
    \/ Classify \/ Refine \/ BoundingBox \/ BoundingBoxRaises \/ CropRows
    \/ Crop \/ Smooth \/ Apply \/ Trim \/ Save

SpecScenario == InitScenario /\ [][NextAdvanced]_vars

(* ============================== claims ================================== *)
TrueCells(m) == {c \in Cells(m.h, m.w) : At(m, c)}

\* The run has passed the Bounding Box Extractor and holds a box.
BoxKnown ==
    pc \in {"bounded", "loop", "cropped", "smoothed", "matted", "applied",
            "trimmed", "done", "ValueError"}

\* The image cell a cell of the cropped region comes from.
Source(c) == <<c[1] + bbox.ymin, c[2] + bbox.xmin>>

(* C1: with reference colour white and threshold T, the classifier marks a  *)
(* pixel as content exactly when the Euclidean distance of its three colour *)
(* channels from white is strictly greater than T; alpha plays no part and  *)
(* a pixel equal to white is background.                                    *)
C1_DistanceThreshold ==
    (script = "advanced" /\ pc = "classified") =>
        /\ mask.h = img_array.h /\ mask.w = img_array.w
        /\ \A c \in Cells(img_array.h, img_array.w) :
              LET p == Px(img_array, c)
                  d2 == (255 - p[1]) * (255 - p[1]) + (255 - p[2]) * (255 - p[2])
                        + (255 - p[3]) * (255 - p[3])
              IN  /\ At(mask, c) <=> d2 > threshold * threshold
                  /\ (<<p[1], p[2], p[3]>> = <<255, 255, 255>> => ~At(mask, c))

\* A classified image with a background pixel at distance exactly T beside a
\* white one.
C1_Witness ==
    /\ script = "advanced" /\ pc = "classified"
    /\ \E c \in Cells(img_array.h, img_array.w) :
          Px(img_array, c) = <<205, 255, 255, 255>> /\ ~At(mask, c)
    /\ \E c \in Cells(img_array.h, img_array.w) :
          Px(img_array, c) = WhitePixel /\ ~At(mask, c)

(* C2: when the mask handed to the Bounding Box Extractor has no true cell, *)
(* the run ends in an error (the uncaught IndexError) or in the "No content *)
(* found" diagnostic, and no output image is produced or written.           *)
C2_EmptyMaskAborts ==
    (pc \notin {"start", "classified"} /\ TrueCells(mask) = {}) =>
        /\ pc \in {"refined", "scanned", "IndexError", "No content found in image"}
        /\ saved = <<>>
        /\ result = NoImage /\ final_img = NoImage /\ cropped_img = NoImage

\* An all-white image whose run has ended in the IndexError.
C2_Witness ==
    /\ pc = "IndexError"
    /\ \A c \in Cells(img_array.h, img_array.w) : Px(img_array, c) = WhitePixel
    /\ saved = <<>>

(* C3: for a mask with a true cell the box has minRow <= maxRow and         *)
(* minCol <= maxCol, contains every true cell, and each of its four sides   *)
(* holds a true cell.                                                       *)
C3_BoundingBoxTight ==
    BoxKnown =>
        /\ TrueCells(mask) # {}
        /\ bbox.ymin <= bbox.ymax /\ bbox.xmin <= bbox.xmax
        /\ \A c \in TrueCells(mask) :
              /\ bbox.ymin <= c[1] /\ c[1] <= bbox.ymax
              /\ bbox.xmin <= c[2] /\ c[2] <= bbox.xmax
        /\ \E c \in TrueCells(mask) : c[1] = bbox.ymin
        /\ \E c \in TrueCells(mask) : c[1] = bbox.ymax
        /\ \E c \in TrueCells(mask) : c[2] = bbox.xmin
        /\ \E c \in TrueCells(mask) : c[2] = bbox.xmax

\* A box of more than one row and column around a mask that does not fill it.
C3_Witness ==
    /\ pc = "bounded"
    /\ bbox.ymin < bbox.ymax /\ bbox.xmin < bbox.xmax
    /\ \E c \in Cells(mask.h, mask.w) :
          /\ bbox.ymin <= c[1] /\ c[1] <= bbox.ymax
          /\ bbox.xmin <= c[2] /\ c[2] <= bbox.xmax
          /\ ~At(mask, c)

\* The last row of the image that the crop of the current variant keeps.
LastKeptRow ==
    IF script = "advanced" THEN crop_ys[variant] ELSE crop_ys[1] - 1

\* The variant's vertical fraction, as numerator and denominator.
FractionOf ==
    IF script = "advanced" /\ variant = 1 THEN <<3, 5>> ELSE <<3, 4>>

Abs(x) == IF x < 0 THEN -x ELSE x

(* C4: the last kept row is minRow + round(f * (maxRow - minRow)), so it is *)
(* an integer nearest to that product, lies in minRow..maxRow, and the crop *)
(* spans rows minRow..cutoff and columns minCol..maxCol.                    *)
C4_Original_CutoffRounded ==
    pc = "cropped" =>
        LET f == FractionOf
            k == LastKeptRow - bbox.ymin
        IN  /\ 2 * Abs(f[2] * k - f[1] * (bbox.ymax - bbox.ymin)) <= f[2]
            /\ bbox.ymin <= LastKeptRow /\ LastKeptRow <= bbox.ymax
            /\ cropped_img = slice_image(img_array, bbox.ymin, LastKeptRow + 1,
                                         bbox.xmin, bbox.xmax + 1)

NearestFalseSq(c) == Min({SqDist(c, f) : f \in FalseCells(cropped_mask)})

\* a = floor(255 * min(sqrt(d2) / 2, 1))
IsTruncatedAlpha(a, d2) ==
    IF d2 >= 4 THEN a = 255
    ELSE 4 * a * a <= 65025 * d2 /\ 65025 * d2 < 4 * (a + 1) * (a + 1)

\* a = 255 * min(sqrt(d2) / 2, 1) rounded to the nearest integer, d2 >= 1
IsRoundedAlpha(a, d2) ==
    IF d2 >= 4 THEN a = 255
    ELSE /\ (2 * a - 1) * (2 * a - 1) <= 65025 * d2
         /\ 65025 * d2 < (2 * a + 1) * (2 * a + 1)

(* C5 as stated: in soft-edge mode with falloff width 2 the alpha of a cell *)
(* of the cropped region is 0 where the mask is false and otherwise         *)
(* 255 * min(d / 2, 1) rounded to the nearest integer, d the distance to    *)
(* the nearest false cell of the mask; it lies in 0..255.                   *)
C5_Original_SoftAlphaRounded ==
    (script = "advanced" /\ pc = "smoothed") =>
        \A c \in Cells(cropped_mask.h, cropped_mask.w) :
            /\ At(alpha, c) \in 0 .. 255
            /\ ~At(cropped_mask, c) => At(alpha, c) = 0
            /\ (At(cropped_mask, c) /\ FalseCells(cropped_mask) # {}) =>
                  IsRoundedAlpha(At(alpha, c), NearestFalseSq(c))

(* C5 as amended: the same, with the product truncated to an integer (127   *)
(* at distance 1, 180 at distance sqrt 2, 255 from distance 2 on), d being  *)
(* measured to the nearest false cell of the cropped mask; a true cell gets *)
(* 127, 180 or 255 also when the cropped mask has no false cell.            *)
C5_SoftAlphaTruncated ==
    (script = "advanced" /\ pc = "smoothed") =>
        /\ alpha.h = cropped_mask.h /\ alpha.w = cropped_mask.w
        /\ \A c \in Cells(cropped_mask.h, cropped_mask.w) :
              /\ At(alpha, c) \in 0 .. 255
              /\ ~At(cropped_mask, c) => At(alpha, c) = 0
              /\ At(cropped_mask, c) => At(alpha, c) \in {127, 180, 255}
              /\ (At(cropped_mask, c) /\ FalseCells(cropped_mask) # {}) =>
                    IsTruncatedAlpha(At(alpha, c), NearestFalseSq(c))

\* A smoothed crop with a false cell and cells at distance 1, sqrt 2 and >= 2.
C5_Witness ==
    /\ script = "advanced" /\ pc = "smoothed"
    /\ \E c \in Cells(alpha.h, alpha.w) : ~At(cropped_mask, c)
    /\ \E c \in Cells(alpha.h, alpha.w) : At(alpha, c) = 127
    /\ \E c \in Cells(alpha.h, alpha.w) : At(alpha, c) = 180
    /\ \E c \in Cells(alpha.h, alpha.w) :
          At(alpha, c) = 255 /\ NearestFalseSq(c) >= 4

(* C6 as stated: in hard-edge mode the alpha of every cell of the cropped   *)
(* region is 0 or 255, and it is 255 exactly when the content mask that     *)
(* gave the box is true at that cell.                                       *)
C6_Original_HardAlphaIsMask ==
    (script = "with_text" /\ pc = "matted") =>
        \A c \in Cells(cropped_img.h, cropped_img.w) :
            /\ At(alpha, c) \in {0, 255}
            /\ At(alpha, c) = 255 <=> At(mask, Source(c))

(* C6 as amended: the alpha is 0 or 255; in extract-logo-with-text.py it is *)
(* 255 exactly when the pixel is neither light (all three channels > 150)   *)
(* nor grayish (channel mean > 180), which implies that the content mask is *)
(* true there but is not implied by it; the alpha that line 52 of           *)
(* extract-logo-advanced.py builds before smoothing is 255 exactly where    *)
(* the cropped mask is true.                                                *)
C6_HardAlpha ==
    /\ (script = "with_text" /\ pc = "matted") =>
          /\ alpha.h = cropped_img.h /\ alpha.w = cropped_img.w
          /\ \A c \in Cells(cropped_img.h, cropped_img.w) :
                LET p == Px(img_array, Source(c))
                IN  /\ At(alpha, c) \in {0, 255}
                    /\ At(alpha, c) = 255 <=>
                          /\ ~(p[1] > 150 /\ p[2] > 150 /\ p[3] > 150)
                          /\ p[1] + p[2] + p[3] <= 3 * 180
                    /\ At(alpha, c) = 255 => At(mask, Source(c))
    /\ (script = "advanced" /\ pc = "cropped") =>
          \A c \in Cells(cropped_mask.h, cropped_mask.w) :
              /\ At(alpha, c) \in {0, 255}
              /\ At(alpha, c) = 255 <=> At(mask, Source(c))

\* A matted crop with a content cell made transparent and a dark one kept.
C6_Witness ==
    /\ script = "with_text" /\ pc = "matted"
    /\ \E c \in Cells(cropped_img.h, cropped_img.w) :
          At(mask, Source(c)) /\ At(alpha, c) = 0
    /\ \E c \in Cells(cropped_img.h, cropped_img.w) :
          At(mask, Source(c)) /\ At(alpha, c) = 255

(* C7: the refiner is idempotent, refine(refine(m)) = refine(m) with the    *)
(* shape kept, for every mask, masks with true cells on the border too.     *)
C7_Original_RefineIdempotent ==
    (script = "advanced" /\ pc = "refined") =>
        /\ mask.h = img_array.h /\ mask.w = img_array.w
        /\ refine(mask) = mask

\* The rectangle that a trim of g must keep: all cells of alpha > 0 lie in it
\* and each of its sides holds one.
IsMinimalCrop(g, t) ==
    LET nt == {c \in Cells(g.h, g.w) : Px(g, c)[4] > 0}
    IN  IF nt = {} THEN t = g
        ELSE \E top \in 0 .. g.h - 1, left \in 0 .. g.w - 1 :
                /\ \A c \in nt : top <= c[1] /\ c[1] < top + t.h
                                 /\ left <= c[2] /\ c[2] < left + t.w
                /\ \E c \in nt : c[1] = top
                /\ \E c \in nt : c[1] = top + t.h - 1
                /\ \E c \in nt : c[2] = left
                /\ \E c \in nt : c[2] = left + t.w - 1
                /\ t.px = Grid(t.h, t.w, LAMBDA c : g.px[c[1] + top][c[2] + left])

(* C8: Trim(g) is g cropped to the smallest rectangle that holds every      *)
(* pixel of alpha > 0, or g itself when there is none, and trimming the     *)
(* trimmed image again changes nothing.                                     *)
C8_TrimIdempotent ==
    pc = "trimmed" =>
        /\ IsMinimalCrop(result, final_img)
        /\ trim(final_img) = final_img

\* A trim that removed a transparent row or column and kept something.
C8_Witness ==
    /\ pc = "trimmed"
    /\ final_img.h > 0 /\ final_img.w > 0
    /\ final_img.h < result.h \/ final_img.w < result.w

\* Ring of a cell of the cropped region in the square the box encloses: 0 for
\* the square's outermost cells, 1 for the next ring, and so on.
Ring(c) ==
    Min({c[1], (bbox.ymax - bbox.ymin) - c[1], c[2], (bbox.xmax - bbox.xmin) - c[2]})

(* C9: on a white image with one solid black square (the 20 x 20 square at  *)
(* 40..59 of a 100 x 100 image, threshold 50) the soft-edge alpha of the    *)
(* kept cells is strictly between 0 and 255 in the square's two outermost   *)
(* rings and exactly 255 further inside.                                    *)
C9_Original_TwoRingFalloff ==
    (script = "advanced" /\ pc = "smoothed") =>
        \A c \in Cells(cropped_mask.h, cropped_mask.w) :
            IF Ring(c) < 2
            THEN 0 < At(alpha, c) /\ At(alpha, c) < 255
            ELSE At(alpha, c) = 255

\* What one variant writes, from the shared image, mask and box alone.
ProcessAlone(v, nocol) ==
    LET y == IF v = 1 THEN graphic_only_y(bbox) ELSE graphic_text_y(bbox)
        m == slice_mask(mask, bbox.ymin, y + 1, bbox.xmin, bbox.xmax + 1)
        g == slice_image(img_array, bbox.ymin, y + 1, bbox.xmin, bbox.xmax + 1)
    IN  trim(with_alpha(g, soft_alpha(m, mask_alpha(m), nocol)))

InVariantLoop ==
    script = "advanced" /\ pc \in {"loop", "cropped", "smoothed", "applied", "trimmed"}

(* C10: processing a variant (crop, alpha, trim, save) leaves the source    *)
(* pixel grid, the refined mask and the box unchanged, and every image      *)
(* written is what processing that variant alone, from those three, gives,  *)
(* whatever was processed before it.                                        *)
C10_VariantsIndependent ==
    /\ [][InVariantLoop =>
             /\ img_array' = img_array /\ mask' = mask /\ bbox' = bbox
             /\ crop_ys' = crop_ys]_vars
    /\ [](script = "advanced" =>
             \A v \in 1 .. Len(Variants) :
                 Variants[v].output_name \in DOMAIN saved =>
                     \E nocol \in {-1, 0} :
                         saved[Variants[v].output_name] = ProcessAlone(v, nocol))

\* Both variants written, cut at different rows, with different images.
C10_Witness ==
    /\ script = "advanced" /\ pc = "done"
    /\ DOMAIN saved = {Variants[1].output_name, Variants[2].output_name}
    /\ crop_ys[1] < crop_ys[2]
    /\ saved[Variants[1].output_name] # saved[Variants[2].output_name]

====
